---- MODULE Spec2Model ----
(***************************************************************************)
(* Model of DataProcessing/sync-tiingonews.py: the Tiingo news bulk-file   *)
(* synchronisation job.  The script is a single sequential program:        *)
(*   fetch the catalog, keep the incremental rows, drop duplicated         *)
(*   filenames, optionally select the rows whose date range contains the   *)
(*   deployment date, list the local *.tar.gz files, compute the files to  *)
(*   download and fetch them one by one.                                   *)
(* The job is run again and again on the same folder (Rerun), so that      *)
(* properties relating one run to the following one can be stated.         *)
(***************************************************************************)
EXTENDS Integers, Sequences, FiniteSets

VARIABLES
    response,           \* requestResponse.json(): the catalog, a sequence of rows
    deployment_date,    \* QC_DATAFLEET_DEPLOYMENT_DATE: <<>> when unset, <<day>> when set
    folder,             \* content of raw_data_folder: file name -> "none" | "old" | "new" | "partial"
    pc,                 \* position of the script
    df,                 \* the data frame, a sequence of rows
    present_files,      \* names listed by the glob of line 41
    files_to_download,  \* the list of line 42
    idx,                \* position of the for loop of line 45 in files_to_download
    log,                \* history: the urlretrieve calls of this run, in order
    folder0,            \* history: content of raw_data_folder when this run started
    prev                \* history: what the previous run did

vars == <<response, deployment_date, folder, pc, df, present_files,
          files_to_download, idx, log, folder0, prev>>

(***************************************************************************)
(* Bounds of the model.                                                    *)
(***************************************************************************)
\* longest catalog response
MaxLen == 2

(***************************************************************************)
(* File names.  A name is <<stem, suffix>>, the name itself being the      *)
(* stem followed by the suffix, so that the glob of line 41 can look at    *)
(* the end of the name.                                                    *)
(***************************************************************************)
TarGz == ".tar.gz"

known_missing_dates ==
    { <<"bulkfile_2017-03-11_2017-03-13", TarGz>>,
      <<"bulkfile_2018-03-10_2018-03-12", TarGz>> }

\* the file names a catalog row or the folder may hold
FileNames ==
    { <<"bulkfile_2017-03-11_2017-03-13", TarGz>>,
      <<"bulkfile_2020-01-01_2020-01-02", TarGz>>,
      <<"bulkfile_2020-01-02_2020-01-03", TarGz>>,
      <<"bulkfile_2020-01-03_2020-01-04", ".zip">> }

BatchTypes == {"incremental", "base"}

\* pathlib's glob('*.tar.gz') on a name: the name ends with .tar.gz
GlobTarGz(name) == name[2] = TarGz

(***************************************************************************)
(* Time stamps of the catalog: local day d, hour h, offset off of the      *)
(* local time zone from UTC in hours.                                      *)
(***************************************************************************)
Stamp(d, h, off) == [d |-> d, h |-> h, off |-> off]

\* pd.to_datetime(column, utc=True).dt.date : the calendar day of the instant in UTC
UtcDate(ts) == ((ts.d * 24 + ts.h) - ts.off) \div 24

\* the value of a converted column: a date, i.e. a day with no time of day
DateOf(ts) == Stamp(UtcDate(ts), 0, 0)

Row(id, filename, batchType, startDate, endDate) ==
    [id |-> id, filename |-> filename, url |-> <<"https://bulk/", id>>,
     batchType |-> batchType, startDate |-> startDate, endDate |-> endDate]

Range(s) == { s[i] : i \in 1..Len(s) }

(***************************************************************************)
(* Lines 24-30: the data frame, the filter and the dedupe.                 *)
(***************************************************************************)
\* df[mask] : the rows of s whose mask is TRUE, in the order of s
RECURSIVE BoolIndex(_, _)
BoolIndex(s, mask) ==
    IF s = <<>> THEN <<>>
    ELSE LET n == Len(s)
             rest == BoolIndex(SubSeq(s, 1, n - 1), [i \in 1..(n - 1) |-> mask[i]])
         IN  IF mask[n] THEN Append(rest, s[n]) ELSE rest

\* df.sort_index(ascending=False) : a new frame, the rows by descending id
RECURSIVE SortIndexDesc(_)
SortIndexDesc(s) ==
    IF s = <<>> THEN <<>>
    ELSE LET m == CHOOSE i \in 1..Len(s) : \A j \in 1..Len(s) : s[j].id <= s[i].id
         IN  <<s[m]>> \o SortIndexDesc(BoolIndex(s, [i \in 1..Len(s) |-> i # m]))

\* the rows of every batch type
AnyBatchType(s) == s

\* df[df.batchType=='incremental']
OnlyIncremental(s) ==
    BoolIndex(s, [i \in 1..Len(s) |-> s[i].batchType = "incremental"])

\* df.filename.duplicated(keep='first') : TRUE for a row whose filename an earlier row has
Duplicated(s) ==
    [i \in 1..Len(s) |-> \E j \in 1..(i - 1) : s[j].filename = s[i].filename]

\* no row dropped
DropNothing(s) == s

\* df[~df.filename.duplicated(keep='first')]
DropDuplicates(s) ==
    BoolIndex(s, [i \in 1..Len(s) |-> ~Duplicated(s)[i]])

\* Lines 24-30.  Line 26 builds the sorted frame and drops it: sort_index is
\* called without inplace=True and its result is not assigned, so the rows
\* keep the order of the response.
FilterDedupe(json) ==
    LET frame == json
        sorted_and_dropped == SortIndexDesc(frame)
    IN  DropDuplicates(OnlyIncremental(frame))

(***************************************************************************)
(* Lines 32-38: selection of the rows whose range holds the date.          *)
(***************************************************************************)
\* lines 36-37: both columns become dates
ConvertDates(s) ==
    [i \in 1..Len(s) |->
        [s[i] EXCEPT !.startDate = DateOf(@), !.endDate = DateOf(@)]]

\* 'startDate <= @processing_date' on one converted row
InWindowStartOnly(r, processing_date) == r.startDate.d <= processing_date

\* 'startDate <= @processing_date <= endDate' on one converted row
InWindow(r, processing_date) ==
    r.startDate.d <= processing_date /\ processing_date <= r.endDate.d

\* line 38: df.query(...)
Query(s, processing_date) ==
    BoolIndex(s, [i \in 1..Len(s) |-> InWindow(s[i], processing_date)])

(***************************************************************************)
(* Lines 41-42: the local scan and the diff.                               *)
(***************************************************************************)
\* a glob whose pattern no file matches
GlobNothing(dir) == {}

\* [f.name for f in raw_data_folder.glob('*.tar.gz')]
Glob(dir) == { n \in DOMAIN dir : dir[n] # "none" /\ GlobTarGz(n) }

\* set(df.filename) - set(known_missing_dates)
DiffIgnoringPresent(frame, present) ==
    { frame[i].filename : i \in 1..Len(frame) } \ known_missing_dates

\* set(df.filename) - set(present_files)
DiffIgnoringKnownMissing(frame, present) ==
    { frame[i].filename : i \in 1..Len(frame) } \ present

\* set(df.filename) - set(present_files) - set(known_missing_dates)
Diff(frame, present) ==
    ({ frame[i].filename : i \in 1..Len(frame) } \ present) \ known_missing_dates

\* list(a set) : the elements once each, in an order the program does not choose
ListsOf(S) ==
    { l \in [1..Cardinality(S) -> S] : \A i, j \in 1..Cardinality(S) : l[i] = l[j] => i = j }

(***************************************************************************)
(* Initial states.                                                         *)
(***************************************************************************)
Perms(n) == { p \in [1..n -> 1..n] : \A i, j \in 1..n : p[i] = p[j] => i = j }

\* A catalog of the job: the ids are distinct, and the row with id i covers
\* the days i and i+1, as successive incremental files do.
IsCatalog(json) ==
    \E n \in 0..MaxLen :
        \E ids \in Perms(n), fns \in [1..n -> FileNames], bts \in [1..n -> BatchTypes] :
            json = [i \in 1..n |->
                      Row(ids[i], fns[i], bts[i],
                          Stamp(ids[i], 0, 0), Stamp(ids[i] + 1, 0, 0))]

\* the folder before the first run: any of the downloadable files may be there
Folders ==
    { d \in [FileNames -> {"none", "old"}] :
        \A n \in known_missing_dates \cap FileNames : d[n] = "none" }

NoPrev == [ran |-> FALSE, clean |-> FALSE, skipped |-> {}, fetched |-> {}]

Init ==
    /\ IsCatalog(response)
    /\ deployment_date \in {<<>>, <<2>>}
    /\ folder \in Folders
    /\ folder0 = folder
    /\ pc = "fetch"
    /\ df = <<>>
    /\ present_files = {}
    /\ files_to_download = <<>>
    /\ idx = 1
    /\ log = <<>>
    /\ prev = NoPrev

(***************************************************************************)
(* The script.                                                             *)
(***************************************************************************)
\* lines 20-30
FetchCatalog ==
    /\ pc = "fetch"
    /\ df' = FilterDedupe(response)
    /\ pc' = "select"
    /\ UNCHANGED <<response, deployment_date, folder, present_files,
                   files_to_download, idx, log, folder0, prev>>

\* lines 32-38, the variable is in the environment
SelectDate ==
    /\ pc = "select"
    /\ deployment_date # <<>>
    /\ LET processing_date == deployment_date[1]
       IN  df' = Query(ConvertDates(df), processing_date)
    /\ pc' = "scan"
    /\ UNCHANGED <<response, deployment_date, folder, present_files,
                   files_to_download, idx, log, folder0, prev>>

\* line 32, the variable is not in the environment
SkipSelectDate ==
    /\ pc = "select"
    /\ deployment_date = <<>>
    /\ pc' = "scan"
    /\ UNCHANGED <<response, deployment_date, folder, df, present_files,
                   files_to_download, idx, log, folder0, prev>>

\* lines 40-43
ScanAndDiff ==
    /\ pc = "scan"
    /\ present_files' = Glob(folder)
    /\ files_to_download' \in ListsOf(Diff(df, present_files'))
    /\ idx' = 1
    /\ pc' = "loop"
    /\ UNCHANGED <<response, deployment_date, folder, df, log, folder0, prev>>

\* lines 46-49 for the file of this iteration
bulk_file == files_to_download[idx]
row == BoolIndex(df, [i \in 1..Len(df) |-> df[i].filename = bulk_file])
url == row[1].url
file_name == row[1].filename

\* one urlretrieve call: the outcome is <<what happened, HTTP status>>, the
\* status being 0 when no answer came
Attempt(outcome) == [file |-> file_name, url |-> url, outcome |-> outcome]

InLoop == pc = "loop" /\ idx <= Len(files_to_download)

\* line 52 returns: the file is written
DownloadOk ==
    /\ InLoop
    /\ folder' = [folder EXCEPT ![file_name] = "new"]
    /\ log' = Append(log, Attempt(<<"ok", 200>>))
    /\ idx' = idx + 1
    /\ UNCHANGED <<response, deployment_date, pc, df, present_files,
                   files_to_download, folder0, prev>>

\* a handler that raises again: the script ends
DownloadHTTPErrorRaises ==
    /\ InLoop
    /\ \E status \in {404, 500} :
          log' = Append(log, Attempt(<<"HTTPError", status>>))
    /\ pc' = "failed"
    /\ UNCHANGED <<response, deployment_date, folder, df, present_files,
                   files_to_download, idx, folder0, prev>>

\* a handler that breaks out of the loop instead of continuing
DownloadHTTPErrorBreaks ==
    /\ InLoop
    /\ \E status \in {404, 500} :
          log' = Append(log, Attempt(<<"HTTPError", status>>))
    /\ pc' = "done"
    /\ UNCHANGED <<response, deployment_date, folder, df, present_files,
                   files_to_download, idx, folder0, prev>>

\* lines 53-55: urlretrieve raises HTTPError when the server answers with an
\* error status, before the destination is opened; the handler takes every
\* status, prints and goes on with the next file
DownloadHTTPError ==
    /\ InLoop
    /\ \E status \in {404, 500} :
          log' = Append(log, Attempt(<<"HTTPError", status>>))
    /\ idx' = idx + 1
    /\ UNCHANGED <<response, deployment_date, folder, pc, df, present_files,
                   files_to_download, folder0, prev>>

\* line 52 raises URLError (no connection): not an HTTPError, the script ends
DownloadURLError ==
    /\ InLoop
    /\ log' = Append(log, Attempt(<<"URLError", 0>>))
    /\ pc' = "failed"
    /\ UNCHANGED <<response, deployment_date, folder, df, present_files,
                   files_to_download, idx, folder0, prev>>

\* line 52 raises while the body is read (connection lost, short content):
\* the destination is already open for writing, the script ends
DownloadTruncated ==
    /\ InLoop
    /\ folder' = [folder EXCEPT ![file_name] = "partial"]
    /\ log' = Append(log, Attempt(<<"ContentTooShortError", 200>>))
    /\ pc' = "failed"
    /\ UNCHANGED <<response, deployment_date, df, present_files,
                   files_to_download, idx, folder0, prev>>

\* line 58
Done ==
    /\ pc = "loop"
    /\ idx > Len(files_to_download)
    /\ pc' = "done"
    /\ UNCHANGED <<response, deployment_date, folder, df, present_files,
                   files_to_download, idx, log, folder0, prev>>

\* The job is started again on the same folder, with the same catalog and
\* the same environment.  What the run that ended has written is from now
\* on what the folder held before the run.
Rerun ==
    /\ pc \in {"done", "failed"}
    /\ prev' = [ran |-> TRUE,
                clean |-> pc = "done" /\ \A i \in 1..Len(log) : log[i].outcome = <<"ok", 200>>,
                skipped |-> { log[i].file : i \in { j \in 1..Len(log) :
                                                     log[j].outcome = <<"HTTPError", 404>> } },
                fetched |-> Range(files_to_download)]
    /\ folder' = [n \in FileNames |-> IF folder[n] = "none" THEN "none" ELSE "old"]
    /\ folder0' = folder'
    /\ pc' = "fetch"
    /\ df' = <<>>
    /\ present_files' = {}
    /\ files_to_download' = <<>>
    /\ idx' = 1
    /\ log' = <<>>
    /\ UNCHANGED <<response, deployment_date>>

Next ==
    \/ FetchCatalog
    \/ SelectDate
    \/ SkipSelectDate
    \/ ScanAndDiff
    \/ DownloadOk
    \/ DownloadHTTPError
    \/ DownloadURLError
    \/ DownloadTruncated
    \/ Done
    \/ Rerun

Spec == Init /\ [][Next]_vars

(***************************************************************************)
(* The filter alone, on catalogs whose dates carry a time of day and a     *)
(* time zone: lines 24-38 and nothing after them.                          *)
(***************************************************************************)
TarGzNames == { n \in FileNames \ known_missing_dates : GlobTarGz(n) }

\* <<startDate, endDate>> of a row; the deployment date of these catalogs is day 2
DateRanges ==
    { <<Stamp(2, 0, 0), Stamp(2, 0, 0)>>,      \* day 2 to day 2
      <<Stamp(1, 23, -5), Stamp(3, 0, 0)>>,    \* starts on day 1 at 23:00-05:00, day 2 in UTC
      <<Stamp(2, 23, -5), Stamp(4, 0, 0)>>,    \* starts on day 2 at 23:00-05:00, day 3 in UTC
      <<Stamp(1, 0, 0), Stamp(2, 2, 5)>>,      \* ends on day 2 at 02:00+05:00, day 1 in UTC
      <<Stamp(1, 0, 0), Stamp(3, 0, 0)>>,      \* day 1 to day 3
      <<Stamp(3, 0, 0), Stamp(4, 0, 0)>> }     \* day 3 to day 4

IsFilterCatalog(json) ==
    \E n \in 0..MaxLen :
        \E ids \in Perms(n), fns \in [1..n -> TarGzNames],
           bts \in [1..n -> BatchTypes], rgs \in [1..n -> DateRanges] :
            json = [i \in 1..n |->
                      Row(ids[i], fns[i], bts[i], rgs[i][1], rgs[i][2])]

InitFilter ==
    /\ IsFilterCatalog(response)
    /\ deployment_date \in {<<>>, <<2>>}
    /\ folder = [n \in FileNames |-> "none"]
    /\ folder0 = folder
    /\ pc = "fetch"
    /\ df = <<>>
    /\ present_files = {}
    /\ files_to_download = <<>>
    /\ idx = 1
    /\ log = <<>>
    /\ prev = NoPrev

NextFilter ==
    \/ FetchCatalog
    \/ SelectDate
    \/ SkipSelectDate

FilterSpec == InitFilter /\ [][NextFilter]_vars

(***************************************************************************)
(* Properties.                                                             *)
(***************************************************************************)
\* the scan and the diff of this run are done
Diffed == pc \in {"loop", "done", "failed"}

NotFound == <<"HTTPError", 404>>

Attempts == 1..Len(log)

\* the rows of the response that are incremental and carry the name
IncrementalWith(name) ==
    { j \in 1..Len(response) :
        response[j].batchType = "incremental" /\ response[j].filename = name }

\* C1: for every filename some incremental row of the response carries, the
\* row of the filtered frame with that filename, and so the URL the file is
\* fetched from, is the incremental row with the greatest id among the
\* incremental rows sharing the filename, whatever the order of the response.
C1_GreatestIdSurvives ==
    /\ \A i \in 1..Len(df) :
          \A j \in IncrementalWith(df[i].filename) : response[j].id <= df[i].id
    /\ \A k \in Attempts :
          \A j \in IncrementalWith(log[k].file) :
              (\A m \in IncrementalWith(log[k].file) : response[m].id <= response[j].id)
                  => log[k].url = response[j].url

\* C2: a download error that is not a "not found" error (an HTTP 500, a
\* connection failure) is fatal: it is the last attempt of the run and the
\* run ends in failure.
C2_OtherErrorsAreFatal ==
    \A k \in Attempts :
        (log[k].outcome[1] # "ok" /\ log[k].outcome # NotFound)
            => (k = Len(log) /\ pc = "failed")

\* C3, as stated: after a run that completed with every download succeeding,
\* the following run on the same catalog and date has nothing to download.
C3_SecondRunDownloadsNothing ==
    (prev.clean /\ Diffed) => files_to_download = <<>>

\* C3, amended: after a run that completed with every download succeeding,
\* the following run downloads no file whose name matches *.tar.gz, and
\* nothing at all when every filename of the filtered frame matches it.
C3_SecondRunDownloadsNoTarGz ==
    (prev.clean /\ Diffed) =>
        /\ \A n \in Range(files_to_download) : ~GlobTarGz(n)
        /\ (\A i \in 1..Len(df) : GlobTarGz(df[i].filename)) => files_to_download = <<>>

\* a second run with nothing to download after a first run that fetched files
C3_Witness ==
    /\ prev.clean /\ prev.fetched # {}
    /\ pc = "done" /\ df # <<>> /\ files_to_download = <<>>

\* C4, as stated: the files to download hold no name present in the folder
\* and no name of known_missing_dates; when every filename of the filtered
\* frame is in the folder, there is nothing to download.
C4_DiffExcludesFolder ==
    Diffed =>
        /\ \A n \in Range(files_to_download) : folder0[n] = "none"
        /\ Range(files_to_download) \cap known_missing_dates = {}
        /\ (\A i \in 1..Len(df) : folder0[df[i].filename] # "none")
              => files_to_download = <<>>

\* C4, amended: the files to download hold no name the scan listed (the
\* *.tar.gz names of the folder) and no name of known_missing_dates; when
\* every filename of the filtered frame was listed, there is nothing to
\* download.
C4_DiffExcludesPresentFiles ==
    Diffed =>
        /\ Range(files_to_download) \cap present_files = {}
        /\ Range(files_to_download) \cap known_missing_dates = {}
        /\ (\A i \in 1..Len(df) : df[i].filename \in present_files)
              => files_to_download = <<>>

\* a frame with a row that is present and a row that is known missing
C4_Witness ==
    /\ Diffed
    /\ \E i \in 1..Len(df) : df[i].filename \in present_files
    /\ \E i \in 1..Len(df) : df[i].filename \in known_missing_dates
    /\ files_to_download = <<>>

\* C5: a download that fails with a not-found error does not end the run:
\* no file is created for it, the loop goes on to the next file, a run that
\* reaches its end has attempted every file, and the following run has the
\* file among its files to download again.
C5_NotFoundIsSkipped ==
    /\ \A k \in Attempts :
          log[k].outcome = NotFound =>
              /\ folder[log[k].file] = folder0[log[k].file]
              /\ pc = "failed" => k < Len(log)
              /\ pc = "loop" => idx > k
    /\ pc = "done" => Len(log) = Len(files_to_download)
    /\ Diffed => prev.skipped \subseteq Range(files_to_download)

\* a run that ended with success after a not-found error on a file that the
\* run before had also skipped, a later file having been fetched
C5_Witness ==
    /\ pc = "done"
    /\ \E k \in Attempts :
          /\ log[k].outcome = NotFound
          /\ log[k].file \in prev.skipped
          /\ folder[log[k].file] = "none"
          /\ k < Len(log)
          /\ log[Len(log)].outcome[1] = "ok"

\* the frame with the dates erased
EraseDates(s) ==
    [i \in 1..Len(s) |->
        [s[i] EXCEPT !.startDate = Stamp(0, 0, 0), !.endDate = Stamp(0, 0, 0)]]

\* C6: with a deployment date D every row of the selected frame has
\* startDate <= D <= endDate, both ends included, the dates being the days
\* in UTC of the row's time stamps; with no deployment date the rows of the
\* frame are rows of the response, the same ones whatever the dates are.
C6_DateWindow ==
    pc = "scan" =>
        /\ deployment_date # <<>> =>
              \A i \in 1..Len(df) :
                  /\ df[i].startDate.d <= deployment_date[1]
                  /\ deployment_date[1] <= df[i].endDate.d
                  /\ \E j \in 1..Len(response) :
                        /\ response[j].id = df[i].id
                        /\ UtcDate(response[j].startDate) <= deployment_date[1]
                        /\ deployment_date[1] <= UtcDate(response[j].endDate)
        /\ deployment_date = <<>> =>
              /\ \A i \in 1..Len(df) : df[i] \in Range(response)
              /\ EraseDates(df) = FilterDedupe(EraseDates(response))

\* a selection that keeps a row starting and ending on D and drops another
C6_Witness ==
    /\ pc = "scan"
    /\ deployment_date # <<>>
    /\ Len(df) < Len(FilterDedupe(response))
    /\ \E i \in 1..Len(df) :
          df[i].startDate.d = deployment_date[1] /\ df[i].endDate.d = deployment_date[1]

\* C7: the filtered frame has at most one row per filename, with or without
\* a deployment date, and the lookup of the file of an iteration finds
\* exactly one row.
C7_OneRowPerFilename ==
    /\ \A i, j \in 1..Len(df) : df[i].filename = df[j].filename => i = j
    /\ InLoop => Len(row) = 1

\* an iteration on a file that two incremental rows of the response carry
C7_Witness ==
    /\ InLoop
    /\ Cardinality(IncrementalWith(bulk_file)) > 1

\* C8: every row of the filtered frame is incremental, and no file is
\* fetched from the URL of a row that is not.
C8_OnlyIncremental ==
    /\ \A i \in 1..Len(df) : df[i].batchType = "incremental"
    /\ \A k \in Attempts :
          /\ \E j \in 1..Len(response) : response[j].url = log[k].url
          /\ \A j \in 1..Len(response) :
                response[j].url = log[k].url => response[j].batchType = "incremental"

\* a file fetched whose name a row that is not incremental has too, that
\* row coming first in the response
C8_Witness ==
    \E k \in Attempts :
        /\ log[k].outcome[1] = "ok"
        /\ Len(response) > 1
        /\ response[1].batchType # "incremental"
        /\ response[1].filename = log[k].file

\* C9, as stated: no file that was in the folder when the run started is
\* deleted or overwritten, every destination being a name that was not in
\* the folder.
C9_OnlyAddsFiles ==
    /\ \A n \in FileNames : folder0[n] # "none" => folder[n] = folder0[n]
    /\ \A k \in Attempts : folder0[log[k].file] = "none"

\* C9, amended: no *.tar.gz file that was in the folder when the run
\* started is deleted or overwritten, every destination being a name the
\* scan did not list.
C9_OnlyAddsTarGzFiles ==
    /\ \A n \in FileNames :
          (GlobTarGz(n) /\ folder0[n] # "none") => folder[n] = folder0[n]
    /\ \A k \in Attempts :
          /\ log[k].file \notin present_files
          /\ GlobTarGz(log[k].file) => folder0[log[k].file] = "none"

\* a file written into a folder that held another *.tar.gz file before
C9_Witness ==
    /\ \E k \in Attempts : log[k].outcome[1] = "ok" /\ folder[log[k].file] = "new"
    /\ \E n \in FileNames : GlobTarGz(n) /\ folder0[n] = "old" /\ folder[n] = "old"

\* C10: the loop attempts the files to download in the order of the list,
\* one per iteration, each once and no other file; a run that reaches its
\* end has attempted them all, and each is then in the folder or had its
\* attempt skipped on an HTTP error.
C10_EachFileOnce ==
    Diffed =>
        /\ \A i, j \in 1..Len(files_to_download) :
              files_to_download[i] = files_to_download[j] => i = j
        /\ Range(files_to_download) = Diff(df, present_files)
        /\ Len(log) <= Len(files_to_download)
        /\ \A k \in Attempts : log[k].file = files_to_download[k]
        /\ pc = "loop" => (idx = Len(log) + 1 /\ idx <= Len(files_to_download) + 1)
        /\ pc = "done" =>
              /\ Len(log) = Len(files_to_download)
              /\ \A k \in Attempts :
                    \/ log[k].outcome[1] = "ok" /\ folder[log[k].file] = "new"
                    \/ log[k].outcome[1] = "HTTPError"

\* a run that ended after one file fetched and one file skipped
C10_Witness ==
    /\ pc = "done"
    /\ Len(log) > 1
    /\ \E k \in Attempts : log[k].outcome[1] = "ok"
    /\ \E k \in Attempts : log[k].outcome[1] = "HTTPError"

====
